---- MODULE Spec2Model ----
(***************************************************************************)
(* Model of PocketSummarize/Scripts/convert_minilm_to_coreml.py: the       *)
(* command-line entry point, convert() and PoolingWrapper.forward.         *)
(*                                                                         *)
(* Strings the script inspects (the output name, the --seq_len text) are   *)
(* sequences of one-character strings, so that endswith, concatenation,    *)
(* int() and os.path.abspath are computed rather than assumed.  Library    *)
(* calls (transformers, torch.jit, coremltools) either return or raise;    *)
(* which one is chosen nondeterministically at every call.  print() and    *)
(* Module.eval() only write a stream or set a flag and are taken to        *)
(* return.                                                                 *)
(***************************************************************************)
EXTENDS Integers, Sequences, FiniteSets, TLC

VARIABLES
    argv,            \* command line: flag name -> text given for it
    cwd,             \* the process's working directory
    pc,              \* position of the script
    args,            \* argparse namespace, once parsed
    model_name,      \* convert() parameter
    seq_len,         \* convert() parameter
    output_package,  \* convert() parameter, reassigned at line 96
    tokenizer,       \* AutoTokenizer instance, if loaded: the model name
    model,           \* AutoModel instance, if loaded: [name, hidden]
    wrapper,         \* PoolingWrapper instance, if built: [base]
    encoded,         \* the tokenizer's BatchEncoding, if made
    input_ids,       \* tensor [shape, dtype], if made
    attention_mask,  \* tensor [shape, dtype], if made
    traced,          \* TorchScript module, if made: "traced" or "scripted"
    mlmodel,         \* the converted model with its metadata, if made
    exc,             \* step whose exception is propagating, or "None"
    log,             \* history: <<step, outcome>> of every library step begun
    stdout,          \* history: the messages printed
    savedPath,       \* history: the argument mlmodel.save was called with
    fs,              \* packages present on disk (outlives the process)
    retval,          \* value returned by convert(), if it returned
    exitStatus,      \* process exit status, once exited
    run,             \* number of this invocation of the script
    prev,            \* history: inputs and outcome of the previous invocation
    fwd_hidden,      \* PoolingWrapper.forward: last_hidden_state[0]
    fwd_mask,        \* PoolingWrapper.forward: attention_mask[0]
    fwd_out          \* PoolingWrapper.forward: its result, once computed

vars == <<argv, cwd, pc, args, model_name, seq_len, output_package, tokenizer,
          model, wrapper, encoded, input_ids, attention_mask, traced, mlmodel,
          exc, log, stdout, savedPath, fs, retval, exitStatus, run, prev,
          fwd_hidden, fwd_mask, fwd_out>>

\* An optional value is a sequence of length 0 (absent) or 1 (present).
Nothing == <<>>

Some(x) == <<x>>

Get(o) == o[1]

-----------------------------------------------------------------------------
(* Bounds of the model *)

MaxNameLen == 2       \* length of the stem of an --output name
MaxTextTokens == 3    \* word pieces the tokenizer may cut the dummy text into
MaxRuns == 2          \* invocations of the script in a row
MaxPoolSeq == 2       \* sequence length of the inputs of forward

-----------------------------------------------------------------------------
(* Strings *)

Suffix == <<".", "m", "l", "p", "a", "c", "k", "a", "g", "e">>

\* str.endswith
EndsWith(s, suf) ==
    /\ Len(s) >= Len(suf)
    /\ SubSeq(s, Len(s) - Len(suf) + 1, Len(s)) = suf

\* str.startswith
StartsWith(s, pre) ==
    /\ Len(s) >= Len(pre)
    /\ SubSeq(s, 1, Len(pre)) = pre

Digits == <<"0", "1", "2", "3", "4", "5", "6", "7", "8", "9">>

IsDigit(c) == \E i \in 1..Len(Digits) : Digits[i] = c

DigitValue(c) == (CHOOSE i \in 1..Len(Digits) : Digits[i] = c) - 1

RECURSIVE DigitsValue(_)
DigitsValue(s) ==
    IF s = <<>> THEN 0
    ELSE 10 * DigitsValue(SubSeq(s, 1, Len(s) - 1)) + DigitValue(s[Len(s)])

\* int(text) of argparse's type=int: an optional sign and decimal digits
IsIntLiteral(s) ==
    LET body == IF s # <<>> /\ s[1] \in {"-", "+"} THEN Tail(s) ELSE s
    IN  body # <<>> /\ \A i \in 1..Len(body) : IsDigit(body[i])

ParseInt(s) ==
    IF s[1] = "-" THEN 0 - DigitsValue(Tail(s))
    ELSE IF s[1] = "+" THEN DigitsValue(Tail(s))
    ELSE DigitsValue(s)

-----------------------------------------------------------------------------
(* os.path.abspath (posixpath) *)

\* str.split("/")
RECURSIVE Split(_)
Split(s) ==
    IF \A i \in 1..Len(s) : s[i] # "/" THEN <<s>>
    ELSE LET k == CHOOSE i \in 1..Len(s) :
                      s[i] = "/" /\ \A j \in 1..(i - 1) : s[j] # "/"
         IN  <<SubSeq(s, 1, k - 1)>> \o Split(SubSeq(s, k + 1, Len(s)))

\* "/".join(comps)
RECURSIVE Join(_)
Join(comps) ==
    IF comps = <<>> THEN <<>>
    ELSE IF Len(comps) = 1 THEN comps[1]
    ELSE comps[1] \o <<"/">> \o Join(Tail(comps))

DotDot == <<".", ".">>

\* the loop of posixpath.normpath over the components
RECURSIVE NormComps(_, _, _)
NormComps(comps, new_comps, initial_slashes) ==
    IF comps = <<>> THEN new_comps
    ELSE LET comp == Head(comps)
             rest == Tail(comps)
         IN  IF comp \in {<<>>, <<".">>}
             THEN NormComps(rest, new_comps, initial_slashes)
             ELSE IF \/ comp # DotDot
                     \/ (initial_slashes = 0 /\ new_comps = <<>>)
                     \/ (new_comps # <<>> /\ new_comps[Len(new_comps)] = DotDot)
             THEN NormComps(rest, Append(new_comps, comp), initial_slashes)
             ELSE IF new_comps # <<>>
             THEN NormComps(rest, SubSeq(new_comps, 1, Len(new_comps) - 1),
                            initial_slashes)
             ELSE NormComps(rest, new_comps, initial_slashes)

NormPath(path) ==
    IF path = <<>> THEN <<".">>
    ELSE LET initial_slashes ==
                 IF ~StartsWith(path, <<"/">>) THEN 0
                 ELSE IF StartsWith(path, <<"/", "/">>)
                         /\ ~StartsWith(path, <<"/", "/", "/">>) THEN 2
                 ELSE 1
             joined == Join(NormComps(Split(path), <<>>, initial_slashes))
             full == [i \in 1..initial_slashes |-> "/"] \o joined
         IN  IF full = <<>> THEN <<".">> ELSE full

\* posixpath.join(a, b)
PathJoin(a, b) ==
    IF StartsWith(b, <<"/">>) THEN b
    ELSE IF a = <<>> \/ EndsWith(a, <<"/">>) THEN a \o b
    ELSE a \o <<"/">> \o b

AbsPath(dir, path) ==
    NormPath(IF StartsWith(path, <<"/">>) THEN path ELSE PathJoin(dir, path))

\* NormalizeSuffix without its test: the suffix is appended to every name
AlwaysAppendSuffix(name) == name \o Suffix

\* lines 95-96: the name mlmodel.save is given
NormalizeSuffix(name) ==
    IF ~EndsWith(name, Suffix)
    THEN name \o (IF EndsWith(name, Suffix) THEN <<>> ELSE Suffix)
    ELSE name

-----------------------------------------------------------------------------
(* Command line and parameters *)

\* the defaults in the signature of convert()
ConvertDefaults ==
    [model_name |-> "sentence-transformers/all-MiniLM-L6-v2",
     seq_len |-> 64,
     output_package |-> <<"A", "l", "l", "M", "i", "n", "i", "L", "M", "L", "6",
                          "V", "2", ".", "m", "l", "p", "a", "c", "k", "a", "g",
                          "e">>]

\* ArgDefaults with a --seq_len default that differs from convert()'s
ArgDefaultsDrifted ==
    [seq_len |-> 128,
     output |-> <<"A", "l", "l", "M", "i", "n", "i", "L", "M", "L", "6", "V", "2",
                  ".", "m", "l", "p", "a", "c", "k", "a", "g", "e">>,
     model |-> "sentence-transformers/all-MiniLM-L6-v2"]

\* the defaults of the three parser.add_argument calls
ArgDefaults ==
    [seq_len |-> 64,
     output |-> <<"A", "l", "l", "M", "i", "n", "i", "L", "M", "L", "6", "V", "2",
                  ".", "m", "l", "p", "a", "c", "k", "a", "g", "e">>,
     model |-> "sentence-transformers/all-MiniLM-L6-v2"]

\* parser.parse_args(): a flag that is given replaces its default
ParseArgs(av) ==
    [seq_len |-> IF av.seq_len = Nothing THEN ArgDefaults.seq_len
                 ELSE ParseInt(Get(av.seq_len)),
     output |-> IF av.output = Nothing THEN ArgDefaults.output
                ELSE Get(av.output),
     model |-> IF av.model = Nothing THEN ArgDefaults.model
               ELSE Get(av.model)]

\* argparse rejects a --seq_len text that int() does not accept
ArgvAccepted(av) == av.seq_len = Nothing \/ IsIntLiteral(Get(av.seq_len))

Params == {"model_name", "seq_len", "output_package"}

\* Python's binding of keyword arguments over the defaults of the signature
Bind(defaults, kwargs) ==
    [p \in Params |-> IF p \in DOMAIN kwargs THEN kwargs[p] ELSE defaults[p]]

\* line 119: the keyword arguments of the call of convert()
CallKwargs(a) ==
    [model_name |-> a.model, seq_len |-> a.seq_len, output_package |-> a.output]

-----------------------------------------------------------------------------
(* Tokenizer, model and conversion *)

Repeat(x, k) == [i \in 1..k |-> x]

SpecialTokens == <<"CLS", "SEP">>

\* The tokenizer cannot encode into fewer places than its special tokens.
CanEncode(max_length) == max_length >= Len(SpecialTokens)

\* Encode without padding="max_length"
EncodeNoPadding(n, max_length) ==
    LET total == n + Len(SpecialTokens)
        kept == IF total > max_length THEN max_length - Len(SpecialTokens) ELSE n
        ids == <<"CLS">> \o Repeat("tok", kept) \o <<"SEP">>
    IN  [n_text |-> n,
         input_ids |-> ids,
         attention_mask |-> Repeat(1, Len(ids))]

\* tokenizer(dummy_text, max_length=seq_len, truncation=True,
\* padding="max_length") for a text of n word pieces: one row of each tensor
Encode(n, max_length) ==
    LET total == n + Len(SpecialTokens)
        kept == IF total > max_length THEN max_length - Len(SpecialTokens) ELSE n
        ids == <<"CLS">> \o Repeat("tok", kept) \o <<"SEP">>
        pad == max_length - Len(ids)
    IN  [n_text |-> n,
         input_ids |-> ids \o Repeat("PAD", pad),
         attention_mask |-> Repeat(1, Len(ids)) \o Repeat(0, pad)]

\* return_tensors="pt": a batch of one row, int64
Tensor(row) == [shape |-> <<1, Len(row)>>, dtype |-> "int64"]

\* .to(dtype=torch.int32)
ToInt32(t) == [shape |-> t.shape, dtype |-> "int32"]

\* ct.TensorType(name=..., shape=t.shape, dtype=np.int32)
TensorType(name, t) == [name |-> name, shape |-> t.shape, dtype |-> "int32"]

\* hidden size of the model AutoModel.from_pretrained loads
HiddenSize(name) ==
    IF name = "sentence-transformers/all-MiniLM-L6-v2" THEN 384 ELSE 768

\* lines 90-91: the description and author written into the package
Metadata ==
    [short_description |-> [model |-> "All-MiniLM-L6-v2", dim |-> 384],
     author |-> [converted_from |-> "sentence-transformers/all-MiniLM-L6-v2"]]

-----------------------------------------------------------------------------
(* Inputs *)

Alphabet == {"m", ".", "/"}

Stems == UNION {[1..k -> Alphabet] : k \in 0..MaxNameLen}

Tails == {<<>>, Suffix, SubSeq(Suffix, 1, Len(Suffix) - 1), Tail(Suffix)}

OutputNames == {stem \o tail : stem \in Stems, tail \in Tails}

SeqLenTexts == {<<"4">>, <<"1", "2">>, <<"1">>, <<"x">>}

ModelNames == {"sentence-transformers/all-mpnet-base-v2"}

Optional(S) == {Nothing} \cup {Some(x) : x \in S}

ArgvSet ==
    [seq_len : Optional(SeqLenTexts),
     output : Optional(OutputNames),
     model : Optional(ModelNames)]

CwdSet == {<<"/", "w">>, <<"/">>}

\* a few command lines, for runs one after another
FewArgv ==
    [seq_len : Optional({<<"4">>}),
     output : Optional({<<"m">>, <<"/", "m">> \o Suffix}),
     model : {Nothing}]

FewCwd == {<<"/", "w">>}

Outcomes == {"ok", "raises"}

-----------------------------------------------------------------------------
(* The script *)

\* the state of a process that has just started
Fresh ==
    /\ pc = "main"
    /\ args = Nothing
    /\ model_name = Nothing
    /\ seq_len = Nothing
    /\ output_package = Nothing
    /\ tokenizer = Nothing
    /\ model = Nothing
    /\ wrapper = Nothing
    /\ encoded = Nothing
    /\ input_ids = Nothing
    /\ attention_mask = Nothing
    /\ traced = Nothing
    /\ mlmodel = Nothing
    /\ exc = "None"
    /\ log = <<>>
    /\ stdout = <<>>
    /\ savedPath = Nothing
    /\ retval = Nothing
    /\ exitStatus = Nothing

NoForward ==
    /\ fwd_hidden = <<>>
    /\ fwd_mask = <<>>
    /\ fwd_out = Nothing

InitWith(argvs, cwds) ==
    /\ argv \in argvs
    /\ cwd \in cwds
    /\ Fresh
    /\ fs = {}
    /\ run = 1
    /\ prev = Nothing
    /\ NoForward

Init == InitWith(ArgvSet, CwdSet)

envVars == <<argv, cwd, run, prev, fwd_hidden, fwd_mask, fwd_out>>

\* a library step returned
Ok(step) == log' = Append(log, <<step, "ok">>)

\* a library step raised and nothing in convert() catches it
Raise(step) ==
    /\ log' = Append(log, <<step, "raised">>)
    /\ exc' = step
    /\ pc' = "raised"

\* lines 112-116
Main ==
    /\ pc = "main"
    /\ IF ArgvAccepted(argv)
       THEN /\ args' = Some(ParseArgs(argv))
            /\ pc' = "call"
            /\ UNCHANGED exitStatus
       ELSE /\ pc' = "exited"
            /\ exitStatus' = Some(2)
            /\ UNCHANGED args
    /\ UNCHANGED <<model_name, seq_len, output_package, tokenizer, model,
                   wrapper, encoded, input_ids, attention_mask, traced, mlmodel,
                   exc, log, stdout, savedPath, fs, retval>>
    /\ UNCHANGED envVars

\* line 119 and lines 24-26: convert() is entered
CallConvert ==
    /\ pc = "call"
    /\ LET bound == Bind(ConvertDefaults, CallKwargs(Get(args)))
       IN  /\ model_name' = Some(bound.model_name)
           /\ seq_len' = Some(bound.seq_len)
           /\ output_package' = Some(bound.output_package)
    /\ pc' = "load_tokenizer"
    /\ UNCHANGED <<args, tokenizer, model, wrapper, encoded, input_ids,
                   attention_mask, traced, mlmodel, exc, log, stdout, savedPath,
                   fs, retval, exitStatus>>
    /\ UNCHANGED envVars

\* LoadTokenizer that tries again when the download raises
LoadTokenizerRetry ==
    /\ pc = "load_tokenizer"
    /\ stdout' = Append(stdout, "[1/6]")
    /\ \E r \in Outcomes :
          IF r = "ok"
          THEN /\ Ok("load_tokenizer")
               /\ tokenizer' = model_name
               /\ pc' = "load_model"
          ELSE /\ log' = Append(log, <<"load_tokenizer", "raised">>)
               /\ UNCHANGED <<tokenizer, pc>>
    /\ UNCHANGED <<args, model_name, seq_len, output_package, model, wrapper,
                   encoded, input_ids, attention_mask, traced, mlmodel, exc,
                   savedPath, fs, retval, exitStatus>>
    /\ UNCHANGED envVars

\* lines 27-28
LoadTokenizer ==
    /\ pc = "load_tokenizer"
    /\ stdout' = Append(stdout, "[1/6]")
    /\ \E r \in Outcomes :
          IF r = "ok"
          THEN /\ Ok("load_tokenizer")
               /\ tokenizer' = model_name
               /\ pc' = "load_model"
               /\ UNCHANGED exc
          ELSE /\ Raise("load_tokenizer")
               /\ UNCHANGED tokenizer
    /\ UNCHANGED <<args, model_name, seq_len, output_package, model, wrapper,
                   encoded, input_ids, attention_mask, traced, mlmodel,
                   savedPath, fs, retval, exitStatus>>
    /\ UNCHANGED envVars

\* lines 29-30
LoadModel ==
    /\ pc = "load_model"
    /\ \E r \in Outcomes :
          IF r = "ok"
          THEN /\ Ok("load_model")
               /\ model' = Some([name |-> Get(model_name),
                                 hidden |-> HiddenSize(Get(model_name))])
               /\ pc' = "wrap"
               /\ UNCHANGED exc
          ELSE /\ Raise("load_model")
               /\ UNCHANGED model
    /\ UNCHANGED <<args, model_name, seq_len, output_package, tokenizer, wrapper,
                   encoded, input_ids, attention_mask, traced, mlmodel, stdout,
                   savedPath, fs, retval, exitStatus>>
    /\ UNCHANGED envVars

\* lines 33-48
Wrap ==
    /\ pc = "wrap"
    /\ Ok("wrap")
    /\ wrapper' = Some([base |-> Get(model)])
    /\ pc' = "tokenize"
    /\ UNCHANGED <<args, model_name, seq_len, output_package, tokenizer, model,
                   encoded, input_ids, attention_mask, traced, mlmodel, exc,
                   stdout, savedPath, fs, retval, exitStatus>>
    /\ UNCHANGED envVars

\* lines 50-60
Tokenize ==
    /\ pc = "tokenize"
    /\ stdout' = Append(stdout, "[2/6]")
    /\ \E r \in Outcomes, n \in 0..MaxTextTokens :
          IF r = "ok" /\ CanEncode(Get(seq_len))
          THEN LET enc == Encode(n, Get(seq_len))
               IN  /\ Ok("tokenize")
                   /\ encoded' = Some(enc)
                   /\ input_ids' = Some(ToInt32(Tensor(enc.input_ids)))
                   /\ attention_mask' = Some(ToInt32(Tensor(enc.attention_mask)))
                   /\ pc' = "trace"
                   /\ UNCHANGED exc
          ELSE /\ Raise("tokenize")
               /\ UNCHANGED <<encoded, input_ids, attention_mask>>
    /\ UNCHANGED <<args, model_name, seq_len, output_package, tokenizer, model,
                   wrapper, traced, mlmodel, savedPath, fs, retval, exitStatus>>
    /\ UNCHANGED envVars

\* Trace with the script call placed after the try statement, not in its
\* except clause
TraceThenScriptAlways ==
    /\ pc = "trace"
    /\ \E r \in Outcomes :
          /\ log' = Append(log, <<"trace", IF r = "ok" THEN "ok" ELSE "raised">>)
          /\ traced' = IF r = "ok" THEN Some("traced") ELSE traced
          /\ stdout' = Append(stdout, "[3/6]")
          /\ pc' = "script"
    /\ UNCHANGED <<args, model_name, seq_len, output_package, tokenizer, model,
                   wrapper, encoded, input_ids, attention_mask, mlmodel, exc,
                   savedPath, fs, retval, exitStatus>>
    /\ UNCHANGED envVars

\* lines 63-67 and the except clause's prints, lines 68-70
Trace ==
    /\ pc = "trace"
    /\ \E r \in Outcomes :
          IF r = "ok"
          THEN /\ Ok("trace")
               /\ traced' = Some("traced")
               /\ stdout' = Append(stdout, "[3/6]")
               /\ pc' = "convert"
          ELSE /\ log' = Append(log, <<"trace", "raised">>)
               /\ stdout' = stdout \o <<"[3/6]", "Tracing failed", "Trying script">>
               /\ pc' = "script"
               /\ UNCHANGED traced
    /\ UNCHANGED <<args, model_name, seq_len, output_package, tokenizer, model,
                   wrapper, encoded, input_ids, attention_mask, mlmodel, exc,
                   savedPath, fs, retval, exitStatus>>
    /\ UNCHANGED envVars

\* lines 71-72
Script ==
    /\ pc = "script"
    /\ \E r \in Outcomes :
          IF r = "ok"
          THEN /\ Ok("script")
               /\ traced' = Some("scripted")
               /\ pc' = "convert"
               /\ UNCHANGED exc
          ELSE /\ Raise("script")
               /\ UNCHANGED traced
    /\ UNCHANGED <<args, model_name, seq_len, output_package, tokenizer, model,
                   wrapper, encoded, input_ids, attention_mask, mlmodel, stdout,
                   savedPath, fs, retval, exitStatus>>
    /\ UNCHANGED envVars

\* lines 74-87
CtConvert ==
    /\ pc = "convert"
    /\ \E r \in Outcomes :
          IF r = "ok"
          THEN /\ Ok("convert")
               /\ mlmodel' = Some(
                      [module |-> Get(traced),
                       base |-> Get(wrapper).base.name,
                       inputs |-> <<TensorType("input_ids", Get(input_ids)),
                                    TensorType("attention_mask",
                                               Get(attention_mask))>>,
                       output_shape |-> <<1, Get(wrapper).base.hidden>>,
                       metadata |-> Nothing])
               /\ stdout' = Append(stdout, "[4/6]")
               /\ pc' = "annotate"
               /\ UNCHANGED exc
          ELSE /\ Raise("convert")
               /\ stdout' = stdout \o <<"[4/6]", "Conversion failed">>
               /\ UNCHANGED mlmodel
    /\ UNCHANGED <<args, model_name, seq_len, output_package, tokenizer, model,
                   wrapper, encoded, input_ids, attention_mask, traced,
                   savedPath, fs, retval, exitStatus>>
    /\ UNCHANGED envVars

\* lines 89-92
Annotate ==
    /\ pc = "annotate"
    /\ Ok("annotate")
    /\ mlmodel' = Some([Get(mlmodel) EXCEPT !.metadata = Some(Metadata)])
    /\ pc' = "save"
    /\ UNCHANGED <<args, model_name, seq_len, output_package, tokenizer, model,
                   wrapper, encoded, input_ids, attention_mask, traced, exc,
                   stdout, savedPath, fs, retval, exitStatus>>
    /\ UNCHANGED envVars

\* Save whose except clause prints and does not raise again
SaveSwallowsError ==
    /\ pc = "save"
    /\ LET name == NormalizeSuffix(Get(output_package))
       IN  /\ output_package' = Some(name)
           /\ savedPath' = Some(name)
           /\ \E r \in Outcomes :
                 IF r = "ok"
                 THEN /\ Ok("save")
                      /\ fs' = fs \cup {AbsPath(cwd, name)}
                      /\ stdout' = Append(stdout, "[5/6]")
                 ELSE /\ log' = Append(log, <<"save", "raised">>)
                      /\ stdout' = stdout \o <<"[5/6]", "Failed to save">>
                      /\ UNCHANGED fs
    /\ pc' = "complete"
    /\ UNCHANGED <<args, model_name, seq_len, tokenizer, model, wrapper, encoded,
                   input_ids, attention_mask, traced, mlmodel, exc, retval,
                   exitStatus>>
    /\ UNCHANGED envVars

\* lines 94-103
Save ==
    /\ pc = "save"
    /\ LET name == NormalizeSuffix(Get(output_package))
       IN  /\ output_package' = Some(name)
           /\ savedPath' = Some(name)
           /\ \E r \in Outcomes :
                 IF r = "ok"
                 THEN /\ Ok("save")
                      /\ fs' = fs \cup {AbsPath(cwd, name)}
                      /\ stdout' = Append(stdout, "[5/6]")
                      /\ pc' = "complete"
                      /\ UNCHANGED exc
                 ELSE /\ Raise("save")
                      /\ stdout' = stdout \o <<"[5/6]", "Failed to save">>
                      /\ UNCHANGED fs
    /\ UNCHANGED <<args, model_name, seq_len, tokenizer, model, wrapper, encoded,
                   input_ids, attention_mask, traced, mlmodel, retval,
                   exitStatus>>
    /\ UNCHANGED envVars

\* Complete that resolves the name as it was passed in, not as it was saved
CompleteFromArgument ==
    /\ pc = "complete"
    /\ stdout' = stdout \o <<"[6/6]", "Saved ML Program package", "Xcode hint">>
    /\ retval' = Some(AbsPath(cwd, Get(args).output))
    /\ pc' = "returned"
    /\ UNCHANGED <<args, model_name, seq_len, output_package, tokenizer, model,
                   wrapper, encoded, input_ids, attention_mask, traced, mlmodel,
                   exc, log, savedPath, fs, exitStatus>>
    /\ UNCHANGED envVars

\* lines 105-109
Complete ==
    /\ pc = "complete"
    /\ stdout' = stdout \o <<"[6/6]", "Saved ML Program package", "Xcode hint">>
    /\ retval' = Some(AbsPath(cwd, Get(output_package)))
    /\ pc' = "returned"
    /\ UNCHANGED <<args, model_name, seq_len, output_package, tokenizer, model,
                   wrapper, encoded, input_ids, attention_mask, traced, mlmodel,
                   exc, log, savedPath, fs, exitStatus>>
    /\ UNCHANGED envVars

\* line 119 returns and the script runs off its end
MainReturn ==
    /\ pc = "returned"
    /\ exitStatus' = Some(0)
    /\ pc' = "exited"
    /\ UNCHANGED <<args, model_name, seq_len, output_package, tokenizer, model,
                   wrapper, encoded, input_ids, attention_mask, traced, mlmodel,
                   exc, log, stdout, savedPath, fs, retval>>
    /\ UNCHANGED envVars

\* MainExcept without sys.exit(1): the script runs off its end
MainExceptNoExit ==
    /\ pc = "raised"
    /\ stdout' = stdout \o <<"Conversion failed with exception", "traceback">>
    /\ exitStatus' = Some(0)
    /\ pc' = "exited"
    /\ UNCHANGED <<args, model_name, seq_len, output_package, tokenizer, model,
                   wrapper, encoded, input_ids, attention_mask, traced, mlmodel,
                   exc, log, savedPath, fs, retval>>
    /\ UNCHANGED envVars

\* lines 120-124
MainExcept ==
    /\ pc = "raised"
    /\ stdout' = stdout \o <<"Conversion failed with exception", "traceback">>
    /\ exitStatus' = Some(1)
    /\ pc' = "exited"
    /\ UNCHANGED <<args, model_name, seq_len, output_package, tokenizer, model,
                   wrapper, encoded, input_ids, attention_mask, traced, mlmodel,
                   exc, log, savedPath, fs, retval>>
    /\ UNCHANGED envVars

Next ==
    \/ Main
    \/ CallConvert
    \/ LoadTokenizer
    \/ LoadModel
    \/ Wrap
    \/ Tokenize
    \/ Trace
    \/ Script
    \/ CtConvert
    \/ Annotate
    \/ Save
    \/ Complete
    \/ MainReturn
    \/ MainExcept

Spec == Init /\ [][Next]_vars

-----------------------------------------------------------------------------
(* The script run again *)

\* what a finished run was given and what it did
RunRecord ==
    [argv |-> argv,
     cwd |-> cwd,
     results |-> [i \in 1..Len(log) |-> log[i][2]],
     steps |-> [i \in 1..Len(log) |-> log[i][1]],
     savedPath |-> savedPath,
     retval |-> retval,
     exitStatus |-> exitStatus]

\* the script is started again, as a new process: only the disk is kept
Reinvoke ==
    /\ pc = "exited"
    /\ run < MaxRuns
    /\ prev' = Some(RunRecord)
    /\ run' = run + 1
    /\ argv' \in FewArgv
    /\ cwd' \in FewCwd
    /\ pc' = "main"
    /\ args' = Nothing
    /\ model_name' = Nothing
    /\ seq_len' = Nothing
    /\ output_package' = Nothing
    /\ tokenizer' = Nothing
    /\ model' = Nothing
    /\ wrapper' = Nothing
    /\ encoded' = Nothing
    /\ input_ids' = Nothing
    /\ attention_mask' = Nothing
    /\ traced' = Nothing
    /\ mlmodel' = Nothing
    /\ exc' = "None"
    /\ log' = <<>>
    /\ stdout' = <<>>
    /\ savedPath' = Nothing
    /\ retval' = Nothing
    /\ exitStatus' = Nothing
    /\ UNCHANGED <<fs, fwd_hidden, fwd_mask, fwd_out>>

NextRuns == Next \/ Reinvoke

InitRuns == InitWith(FewArgv, FewCwd)

SpecRuns == InitRuns /\ [][NextRuns]_vars

-----------------------------------------------------------------------------
(* PoolingWrapper.forward *)

HiddenIdx == {"h0", "h1"}

HiddenValues == {-1, 0, 2}

RECURSIVE SumSeq(_)
SumSeq(s) == IF s = <<>> THEN 0 ELSE Head(s) + SumSeq(Tail(s))

\* Summed without the mask: a plain sum over all positions
SummedUnmasked(last_hidden, mask) ==
    [h \in HiddenIdx |->
        SumSeq([i \in 1..Len(last_hidden) |-> last_hidden[i][h]])]

\* line 42: (last_hidden * mask).sum(dim=1)
Summed(last_hidden, mask) ==
    [h \in HiddenIdx |->
        SumSeq([i \in 1..Len(last_hidden) |-> last_hidden[i][h] * mask[i]])]

\* line 43: mask.sum(dim=1).clamp(min=1e-9), as mant * 10^exp10
Denom(mask) ==
    LET total == SumSeq(mask)
    IN  IF total >= 1 THEN [mant |-> total, exp10 |-> 0]
        ELSE [mant |-> 1, exp10 |-> -9]

\* line 44: summed / denom, each component the fraction num / den
Pooled(last_hidden, mask) ==
    LET summed == Summed(last_hidden, mask)
        denom == Denom(mask)
    IN  [h \in HiddenIdx |-> [num |-> summed[h], den |-> denom]]

RECURSIVE SumSquares(_, _)
SumSquares(v, H) ==
    IF H = {} THEN 0
    ELSE LET h == CHOOSE x \in H : TRUE
         IN  v[h].num * v[h].num + SumSquares(v, H \ {h})

\* line 45: torch.nn.functional.normalize(pooled, p=2, dim=1).  The common
\* denominator cancels: component h is vec[h] / sqrt(sqnorm), and a vector of
\* norm 0 is divided by the eps 1e-12 instead and stays 0.
Normalize(pooled) ==
    LET sq == SumSquares(pooled, HiddenIdx)
    IN  [vec |-> [h \in HiddenIdx |-> pooled[h].num],
         sqnorm |-> sq,
         by_eps |-> sq = 0]

\* lines 38-46, the hidden states of self.base being last_hidden
Forward(last_hidden, mask) ==
    LET pooled == Pooled(last_hidden, mask)
    IN  [pooled |-> pooled, normalized |-> Normalize(pooled)]

HiddenStates(len) == [1..len -> [HiddenIdx -> HiddenValues]]

InitPool ==
    /\ \E len \in 1..MaxPoolSeq :
          /\ fwd_hidden \in HiddenStates(len)
          /\ fwd_mask \in [1..len -> {0, 1}]
    /\ fwd_out = Nothing
    /\ argv = [seq_len |-> Nothing, output |-> Nothing, model |-> Nothing]
    /\ cwd = <<"/">>
    /\ Fresh
    /\ fs = {}
    /\ run = 1
    /\ prev = Nothing

\* the converted model is evaluated on one input
ForwardCall ==
    /\ fwd_out = Nothing
    /\ fwd_hidden # <<>>
    /\ fwd_out' = Some(Forward(fwd_hidden, fwd_mask))
    /\ UNCHANGED <<argv, cwd, pc, args, model_name, seq_len, output_package,
                   tokenizer, model, wrapper, encoded, input_ids,
                   attention_mask, traced, mlmodel, exc, log, stdout, savedPath,
                   fs, retval, exitStatus, run, prev, fwd_hidden, fwd_mask>>

SpecPool == InitPool /\ [][ForwardCall]_vars

-----------------------------------------------------------------------------
(* Reading the history *)

Steps(l) == [i \in 1..Len(l) |-> l[i][1]]

Results(l) == [i \in 1..Len(l) |-> l[i][2]]

Logged(entry) == \E i \in 1..Len(log) : log[i] = entry

Began(step) == \E i \in 1..Len(log) : log[i][1] = step

Printed(msg) == \E i \in 1..Len(stdout) : stdout[i] = msg

IsPrefix(a, b) == Len(a) <= Len(b) /\ SubSeq(b, 1, Len(a)) = a

OrderTraced ==
    <<"load_tokenizer", "load_model", "wrap", "tokenize", "trace",
      "convert", "annotate", "save">>

OrderScripted ==
    <<"load_tokenizer", "load_model", "wrap", "tokenize", "trace", "script",
      "convert", "annotate", "save">>

\* the one failure convert() itself handles: trace raised, script is tried next
IsFallback(i) ==
    /\ log[i] = <<"trace", "raised">>
    /\ i < Len(log) => log[i + 1][1] = "script"

RECURSIVE SumOver(_, _, _)
SumOver(hidden, S, h) ==
    IF S = {} THEN 0
    ELSE LET i == CHOOSE x \in S : TRUE
         IN  hidden[i][h] + SumOver(hidden, S \ {i}, h)

-----------------------------------------------------------------------------
(* Properties *)

\* C1: the steps of a run are begun in the fixed order load tokenizer, load
\* model, wrap, prepare inputs, trace, (script,) convert, annotate, save; each
\* at most once; a step is begun only after the one before it returned, the
\* only exception being script, which is begun after trace raised.
C1_StepOrder ==
    /\ IsPrefix(Steps(log), OrderTraced) \/ IsPrefix(Steps(log), OrderScripted)
    /\ \A i \in 1..(Len(log) - 1) : log[i][2] = "ok" \/ IsFallback(i)
    /\ \A i \in 1..Len(log) :
          log[i][1] = "script" => i > 1 /\ log[i - 1] = <<"trace", "raised">>
    /\ \A i, j \in 1..Len(log) : log[i][1] = log[j][1] => i = j

C1_Witness ==
    /\ pc = "exited"
    /\ Steps(log) = OrderScripted
    /\ exitStatus = Some(0)

C3_SingleFallback ==
    /\ Cardinality({i \in 1..Len(log) : log[i][1] = "script"}) <= 1
    /\ \A i \in 1..Len(log) :
          log[i][1] = "script" => i > 1 /\ log[i - 1] = <<"trace", "raised">>
    /\ Logged(<<"trace", "ok">>) =>
          /\ ~Began("script")
          /\ pc # "script"
          /\ traced = Some("traced")
          /\ mlmodel # Nothing => Get(mlmodel).module = "traced"
    /\ Logged(<<"script", "ok">>) =>
          /\ traced = Some("scripted")
          /\ pc = "convert" \/ Began("convert")
          /\ mlmodel # Nothing => Get(mlmodel).module = "scripted"
    /\ Logged(<<"script", "raised">>) =>
          /\ ~Began("convert")
          /\ ~Began("save")
          /\ exc = "script"
          /\ pc \in {"raised", "exited"}

C3_Witness ==
    /\ Logged(<<"trace", "raised">>)
    /\ Logged(<<"script", "ok">>)
    /\ Logged(<<"convert", "ok">>)

C5_MetadataMatchesModel ==
    (pc = "exited" /\ exitStatus = Some(0)) =>
        LET m == Get(mlmodel)
        IN  /\ Get(m.metadata).author.converted_from = m.base
            /\ Get(m.metadata).short_description.dim = m.output_shape[2]

\* C6: the name given to mlmodel.save ends with ".mlpackage"; it is the
\* --output name itself when that already ends with ".mlpackage" and the
\* --output name followed by one ".mlpackage" otherwise; normalizing it again
\* changes nothing.
C6_SuffixNormalized ==
    savedPath # Nothing =>
        LET given == Get(args).output
            saved == Get(savedPath)
        IN  /\ EndsWith(saved, Suffix)
            /\ EndsWith(given, Suffix) => saved = given
            /\ ~EndsWith(given, Suffix) => saved = given \o Suffix
            /\ Len(saved) \in {Len(given), Len(given) + Len(Suffix)}
            /\ NormalizeSuffix(saved) = saved

\* a name one character short of the suffix gets the whole suffix appended
C6_Witness ==
    /\ savedPath # Nothing
    /\ EndsWith(Get(args).output, SubSeq(Suffix, 1, Len(Suffix) - 1))
    /\ Get(savedPath) = Get(args).output \o Suffix

\* C7: convert() is entered with, for each parameter, the value given on the
\* command line for its flag, or the default of convert()'s own signature when
\* the flag is not given.
C7_DefaultsAgree ==
    pc = "load_tokenizer" =>
        /\ seq_len = Some(IF argv.seq_len = Nothing THEN ConvertDefaults.seq_len
                          ELSE ParseInt(Get(argv.seq_len)))
        /\ output_package =
               Some(IF argv.output = Nothing THEN ConvertDefaults.output_package
                    ELSE Get(argv.output))
        /\ model_name = Some(IF argv.model = Nothing THEN ConvertDefaults.model_name
                             ELSE Get(argv.model))

C7_Witness ==
    /\ pc = "load_tokenizer"
    /\ argv.seq_len = Nothing
    /\ argv.model = Nothing
    /\ argv.output = Some(<<"m">>)

\* C8: save is begun only with a model ct.convert returned and whose metadata
\* is set; the "[6/6]" message, the return value and a package on disk exist
\* only in a run whose save returned.
C8_NoSuccessAfterFailure ==
    /\ Began("save") =>
          /\ Logged(<<"convert", "ok">>)
          /\ mlmodel # Nothing
          /\ Get(mlmodel).metadata = Some(Metadata)
    /\ (Printed("[6/6]") \/ retval # Nothing \/ exitStatus = Some(0))
          => Logged(<<"save", "ok">>)
    /\ (run = 1 /\ fs # {}) => Logged(<<"save", "ok">>)

C8_Witness ==
    /\ Logged(<<"save", "raised">>)
    /\ pc = "exited"

\* C9: the pooled vector is the sum of the hidden states at the positions whose
\* mask is 1 divided by their number, so hidden states at positions whose mask
\* is 0 do not change the result of forward; with a mask of zeros only the
\* divisor is the positive clamp value, not 0, and the pooled vector is 0.
C9_MaskedMean ==
    fwd_out # Nothing =>
        LET out == Get(fwd_out)
            ones == {i \in 1..Len(fwd_mask) : fwd_mask[i] = 1}
            n == Cardinality(ones)
        IN  /\ \A h \in HiddenIdx : out.pooled[h].den.mant > 0
            /\ n >= 1 => \A h \in HiddenIdx :
                  /\ out.pooled[h].den = [mant |-> n, exp10 |-> 0]
                  /\ out.pooled[h].num = SumOver(fwd_hidden, ones, h)
            /\ n = 0 => \A h \in HiddenIdx :
                  /\ out.pooled[h].num = 0
                  /\ out.pooled[h].den.exp10 < 0
                  /\ out.normalized.vec[h] = 0
            /\ \A other \in HiddenStates(Len(fwd_hidden)) :
                  (\A i \in ones : other[i] = fwd_hidden[i])
                      => Forward(other, fwd_mask) = out

\* a mask with a 0 over a hidden state that is not 0, and a 1 elsewhere
C9_Witness ==
    /\ fwd_out # Nothing
    /\ \E i, j \in 1..Len(fwd_mask) :
          /\ fwd_mask[i] = 0
          /\ \E h \in HiddenIdx : fwd_hidden[i][h] # 0
          /\ fwd_mask[j] = 1

\* C10: the value convert() returns is the absolute form of the name
\* mlmodel.save was given in the same run, where the package then is; and two
\* runs given the same command line and working directory, whose library calls
\* ended the same way, take the same steps, save under the same name, return
\* the same value and exit with the same status.
C10_ReturnAndIndependence ==
    /\ retval # Nothing =>
          /\ savedPath # Nothing
          /\ Get(retval) = AbsPath(cwd, Get(savedPath))
          /\ StartsWith(Get(retval), <<"/">>)
          /\ Get(retval) \in fs
    /\ (pc = "exited" /\ prev # Nothing) =>
          LET before == Get(prev)
              now == RunRecord
          IN  (/\ before.argv = now.argv
               /\ before.cwd = now.cwd
               /\ before.results = now.results)
                  => /\ before.steps = now.steps
                     /\ before.savedPath = now.savedPath
                     /\ before.retval = now.retval
                     /\ before.exitStatus = now.exitStatus

\* a second run that repeats a successful first run over its package
C10_Witness ==
    /\ pc = "exited"
    /\ prev # Nothing
    /\ Get(prev).argv = argv
    /\ Get(prev).results = Results(log)
    /\ retval # Nothing
    /\ Get(retval) # Get(args).output

====
